---- MODULE Spec2Model ----
(***************************************************************************)
(* The game-economy store of 3d-farm-game.  The repository holds five      *)
(* copies of the zustand store `useStore`:                                 *)
(*   part_000  src/unnamed/part_000 lines 8-28                             *)
(*   App_1     src/src/App.jsx      lines 8-37                             *)
(*   App_2     src/src/App.jsx      lines 256-275                          *)
(*   main_1    src/src/main.jsx     lines 9-19  (three operations only)    *)
(*   main_2    src/src/main.jsx     lines 114-133                          *)
(* A behaviour fixes one copy (variant) and then calls its operations in   *)
(* any order with any arguments.  zustand's set(partial) merges the        *)
(* returned fields into the state: the fields an operation does not return *)
(* are UNCHANGED, and returning the state s itself changes nothing.        *)
(* Spec calls the operations of a store directly; SpecServe calls addItem  *)
(* and serve from chosen balances and counts; SpecGame takes the steps the *)
(* component rendered over the store offers the player.                    *)
(* SpecShop takes the same steps from the first shop of a game on.         *)
(***************************************************************************)
EXTENDS Integers, Sequences, FiniteSets, TLC

VARIABLES variant, money, day, inventory, maxCapacity, customersServed,
          gameState, unlockedAnimals, unlockedCrops,
          stages, growth,                        \* the App component's state
          daysStarted, startedSince, servedSince, \* history of the session
          spent

\* the store
vars == <<variant, money, day, inventory, maxCapacity, customersServed,
          gameState, unlockedAnimals, unlockedCrops>>

\* the component that renders the store (useState of App / Game /
\* VegetablePatch), and the history of the session: the number of startDay
\* calls, whether startDay was called since day last changed, and the
\* successful serves since day last changed (counted up to 10), and the money
\* paid for upgrades through the shop buttons
appvars == <<stages, growth, daysStarted, startedSince, servedSince, spent>>

allvars == <<vars, appvars>>

(* ------------------------------ bounds -------------------------------- *)
\* The operations themselves are unbounded; a specification leaves a call out
\* once it would take a value past its bound (withinBounds, withinGame).
\* the largest balance
MaxMoney == 350
\* the last day
MaxDay == 2
\* the largest customersServed
MaxServed == 11
\* the largest number of entries of both unlock lists together
MaxUnlocked == 3

(* --------------------------- argument sets ---------------------------- *)
Variants == {"part_000", "App_1", "App_2", "main_1", "main_2"}
\* the copies with the whole state (customersServed, unlock lists, shop)
FullStores == {"part_000", "App_1", "App_2", "main_2"}
\* the copies whose serve splices one item out of the inventory
SpliceStores == {"part_000", "App_1", "main_2"}
\* item identifiers passed to addItem and serve
Items == {"egg", "duck_egg"}
\* arguments of buyUpgrade: "tool" stands for a kind that is neither 'animal'
\* nor 'crop'; the costs are the prices the shops ask
Kinds == {"animal", "crop", "tool"}
Costs == {150, 200, 500}
NextItems == {"duck"}
\* a field the store object does not have (main_1)
Undefined == "undefined"

(* ------------------------- JavaScript helpers ------------------------- *)
\* Array.prototype.includes
includes(arr, x) == \E k \in 1..Len(arr) : arr[k] = x

\* mutation of indexOf: the last occurrence is found (lastIndexOf)
indexOf_last(arr, x) ==
  IF includes(arr, x)
    THEN (CHOOSE k \in 1..Len(arr) :
            /\ arr[k] = x
            /\ \A j \in (k + 1)..Len(arr) : arr[j] # x) - 1
    ELSE -1

\* mutation of indexOf: the index is 1-based
indexOf_oneBased(arr, x) ==
  IF includes(arr, x)
    THEN CHOOSE k \in 1..Len(arr) :
           /\ arr[k] = x
           /\ \A j \in 1..(k - 1) : arr[j] # x
    ELSE -1

\* Array.prototype.indexOf: 0-based index of the first occurrence, or -1
indexOf(arr, x) ==
  IF includes(arr, x)
    THEN (CHOOSE k \in 1..Len(arr) :
            /\ arr[k] = x
            /\ \A j \in 1..(k - 1) : arr[j] # x) - 1
    ELSE -1

\* Array.prototype.splice(idx, 1) on a copy: a negative idx counts from the end
splice(arr, idx) ==
  LET start == IF idx < 0
                 THEN (IF Len(arr) + idx < 0 THEN 0 ELSE Len(arr) + idx)
                 ELSE (IF idx > Len(arr) THEN Len(arr) ELSE idx)
  IN  IF start >= Len(arr)
        THEN arr
        ELSE [k \in 1..(Len(arr) - 1) |->
                IF k <= start THEN arr[k] ELSE arr[k + 1]]

(* --------------------------- reward tables ---------------------------- *)
rewards_part_000 == [egg |-> 25, duck_egg |-> 50, tomato |-> 60, carrot |-> 35]

rewards_App_1 ==
  [egg |-> 20, duck_egg |-> 45, sheep_milk |-> 80, carrot |-> 30, tomato |-> 55]

rewards_App_2 ==
  [egg |-> 20, duck_egg |-> 40, sheep_milk |-> 70, cow_milk |-> 120,
   carrot |-> 25, tomato |-> 50, cabbage |-> 90]

rewards_main_2 == [egg |-> 25, duck_egg |-> 50, carrot |-> 35, tomato |-> 60]

rewards(v) ==
  CASE v = "part_000" -> rewards_part_000
    [] v = "App_1"    -> rewards_App_1
    [] v = "App_2"    -> rewards_App_2
    [] v = "main_2"   -> rewards_main_2

\* mutation of rewardOr20: an item without a price is served for nothing
\* (rewards[item] || 0)
rewardOr0(v, item) ==
  IF item \in DOMAIN rewards(v) THEN rewards(v)[item] ELSE 0

\* rewards[item] || 20 : a missing key (undefined) and 0 both fall back to 20
rewardOr20(v, item) ==
  IF item \in DOMAIN rewards(v) /\ rewards(v)[item] # 0
    THEN rewards(v)[item]
    ELSE 20

\* mutation of phaseAfter: the day ends one customer late (> for >=)
phaseAfter_gt(total) == IF total > 10 THEN "SHOP" ELSE "PLAYING"

\* total >= 10 ? 'SHOP' : 'PLAYING'
phaseAfter(total) == IF total >= 10 THEN "SHOP" ELSE "PLAYING"

(* --------------------------- initial state ---------------------------- *)
money0(v) ==
  CASE v = "part_000" -> 300
    [] v = "App_1"    -> 300
    [] v = "App_2"    -> 100
    [] v = "main_1"   -> 0
    [] v = "main_2"   -> 100

\* useState of the component: every crop EMPTY with growth 0; main_1's Game
\* has no crops
InitApp ==
  /\ stages = CASE variant = "main_1" -> Undefined
                [] variant = "App_2"  -> [patch |-> "EMPTY"]
                [] OTHER              -> [carrot |-> "EMPTY", tomato |-> "EMPTY"]
  /\ growth = CASE variant = "main_1" -> Undefined
                [] variant = "App_2"  -> [patch |-> 0]
                [] OTHER              -> [carrot |-> 0, tomato |-> 0]
  /\ daysStarted = 0
  /\ startedSince = FALSE
  /\ servedSince = 0
  /\ spent = 0

Init ==
  /\ variant \in Variants
  /\ money = money0(variant)
  /\ day = 1
  /\ inventory = <<>>
  /\ gameState = "START"
  /\ maxCapacity = IF variant \in FullStores THEN 3 ELSE Undefined
  /\ customersServed = IF variant \in FullStores THEN 0 ELSE Undefined
  /\ unlockedAnimals = IF variant \in FullStores THEN <<"chicken">> ELSE Undefined
  /\ unlockedCrops = IF variant \in FullStores THEN <<"carrot">> ELSE Undefined
  /\ InitApp

(* ----------------------------- operations ----------------------------- *)
\* mutation of startDay: a day is started only from the START screen
startDay_fromStart ==
  /\ variant \in FullStores
  /\ gameState = "START"
  /\ gameState' = "PLAYING"
  /\ customersServed' = 0
  /\ inventory' = <<>>
  /\ UNCHANGED <<variant, money, day, maxCapacity, unlockedAnimals, unlockedCrops>>

\* mutation of startDay: the served counter is not reset
startDay_keepCount ==
  /\ variant \in FullStores
  /\ gameState' = "PLAYING"
  /\ inventory' = <<>>
  /\ UNCHANGED <<variant, money, day, maxCapacity, customersServed,
                 unlockedAnimals, unlockedCrops>>

startDay ==
  /\ variant \in FullStores
  /\ gameState' = "PLAYING"
  /\ customersServed' = 0
  /\ inventory' = <<>>
  /\ UNCHANGED <<variant, money, day, maxCapacity, unlockedAnimals, unlockedCrops>>

startDay_main_1 ==
  /\ variant = "main_1"
  /\ gameState' = "PLAYING"
  /\ inventory' = <<>>
  /\ UNCHANGED <<variant, money, day, maxCapacity, customersServed,
                 unlockedAnimals, unlockedCrops>>

\* mutation of addItem: off by one in the capacity test (<= for <)
addItem_le(item) ==
  /\ variant \in FullStores
  /\ IF Len(inventory) <= maxCapacity
       THEN /\ inventory' = Append(inventory, item)
            /\ UNCHANGED <<variant, money, day, maxCapacity, customersServed,
                           gameState, unlockedAnimals, unlockedCrops>>
       ELSE UNCHANGED vars

\* mutation of addItem: the new item is put first ([item, ...s.inventory])
addItem_prepend(item) ==
  /\ variant \in FullStores
  /\ IF Len(inventory) < maxCapacity
       THEN /\ inventory' = <<item>> \o inventory
            /\ UNCHANGED <<variant, money, day, maxCapacity, customersServed,
                           gameState, unlockedAnimals, unlockedCrops>>
       ELSE UNCHANGED vars

addItem(item) ==
  /\ variant \in FullStores
  /\ IF Len(inventory) < maxCapacity
       THEN /\ inventory' = Append(inventory, item)
            /\ UNCHANGED <<variant, money, day, maxCapacity, customersServed,
                           gameState, unlockedAnimals, unlockedCrops>>
       ELSE UNCHANGED vars

\* mutation of addItem_main_1: off by one in the capacity test (<= 3)
addItem_main_1_le(item) ==
  /\ variant = "main_1"
  /\ IF Len(inventory) <= 3
       THEN /\ inventory' = Append(inventory, item)
            /\ UNCHANGED <<variant, money, day, maxCapacity, customersServed,
                           gameState, unlockedAnimals, unlockedCrops>>
       ELSE UNCHANGED vars

addItem_main_1(item) ==
  /\ variant = "main_1"
  /\ IF Len(inventory) < 3
       THEN /\ inventory' = Append(inventory, item)
            /\ UNCHANGED <<variant, money, day, maxCapacity, customersServed,
                           gameState, unlockedAnimals, unlockedCrops>>
       ELSE UNCHANGED vars

\* mutation of serve: the includes test is missing, so indexOf gives -1 for an
\* item not held and splice(-1, 1) takes the last item
serve_noCheck(itemNeeded) ==
  /\ variant \in SpliceStores
  /\ LET idx    == indexOf(inventory, itemNeeded)
         newInv == splice(inventory, idx)
         total  == customersServed + 1
     IN  /\ money' = money + rewardOr20(variant, itemNeeded)
         /\ customersServed' = total
         /\ inventory' = newInv
         /\ gameState' = phaseAfter(total)
         /\ UNCHANGED <<variant, day, maxCapacity, unlockedAnimals,
                        unlockedCrops>>

serve(itemNeeded) ==
  /\ variant \in SpliceStores
  /\ IF ~includes(inventory, itemNeeded)
       THEN UNCHANGED vars
       ELSE LET idx    == indexOf(inventory, itemNeeded)
                newInv == splice(inventory, idx)
                total  == customersServed + 1
            IN  /\ money' = money + rewardOr20(variant, itemNeeded)
                /\ customersServed' = total
                /\ inventory' = newInv
                /\ gameState' = phaseAfter(total)
                /\ UNCHANGED <<variant, day, maxCapacity, unlockedAnimals,
                               unlockedCrops>>

serve_App_2(itemType) ==
  /\ variant = "App_2"
  /\ IF ~includes(inventory, itemType)
       THEN UNCHANGED vars
       ELSE LET total == customersServed + 1
            IN  /\ money' = money + rewardOr20(variant, itemType)
                /\ customersServed' = total
                /\ inventory' = <<>>
                /\ gameState' = phaseAfter(total)
                /\ UNCHANGED <<variant, day, maxCapacity, unlockedAnimals,
                               unlockedCrops>>

serve_main_1(item) ==
  /\ variant = "main_1"
  /\ IF ~includes(inventory, item)
       THEN UNCHANGED vars
       ELSE LET newInv == splice(inventory, indexOf(inventory, item))
            IN  /\ money' = money + 50
                /\ inventory' = newInv
                /\ UNCHANGED <<variant, day, maxCapacity, customersServed,
                               gameState, unlockedAnimals, unlockedCrops>>

\* mutation of buyUpgrade: the funds test is missing
buyUpgrade_noCheck(type, cost, nextItem) ==
  /\ variant \in FullStores
  /\ money' = money - cost
  /\ IF type = "animal"
       THEN /\ unlockedAnimals' = Append(unlockedAnimals, nextItem)
            /\ UNCHANGED unlockedCrops
       ELSE /\ unlockedCrops' = Append(unlockedCrops, nextItem)
            /\ UNCHANGED unlockedAnimals
  /\ UNCHANGED <<variant, day, inventory, maxCapacity, customersServed,
                 gameState>>

\* mutation of buyUpgrade: the funds test is inverted (money > cost rejects)
buyUpgrade_inverted(type, cost, nextItem) ==
  /\ variant \in FullStores
  /\ IF money > cost
       THEN UNCHANGED vars
       ELSE /\ money' = money - cost
            /\ IF type = "animal"
                 THEN /\ unlockedAnimals' = Append(unlockedAnimals, nextItem)
                      /\ UNCHANGED unlockedCrops
                 ELSE /\ unlockedCrops' = Append(unlockedCrops, nextItem)
                      /\ UNCHANGED unlockedAnimals
            /\ UNCHANGED <<variant, day, inventory, maxCapacity,
                           customersServed, gameState>>

\* mutation of buyUpgrade: the list is replaced by the new item
\* ([key]: [nextItem]) instead of extended
buyUpgrade_replace(type, cost, nextItem) ==
  /\ variant \in FullStores
  /\ IF money < cost
       THEN UNCHANGED vars
       ELSE /\ money' = money - cost
            /\ IF type = "animal"
                 THEN /\ unlockedAnimals' = <<nextItem>>
                      /\ UNCHANGED unlockedCrops
                 ELSE /\ unlockedCrops' = <<nextItem>>
                      /\ UNCHANGED unlockedAnimals
            /\ UNCHANGED <<variant, day, inventory, maxCapacity,
                           customersServed, gameState>>

\* mutation of buyUpgrade: the key test names the other list
\* (type === 'crop' ? 'unlockedCrops' : 'unlockedAnimals')
buyUpgrade_keyCrop(type, cost, nextItem) ==
  /\ variant \in FullStores
  /\ IF money < cost
       THEN UNCHANGED vars
       ELSE /\ money' = money - cost
            /\ IF type = "crop"
                 THEN /\ unlockedCrops' = Append(unlockedCrops, nextItem)
                      /\ UNCHANGED unlockedAnimals
                 ELSE /\ unlockedAnimals' = Append(unlockedAnimals, nextItem)
                      /\ UNCHANGED unlockedCrops
            /\ UNCHANGED <<variant, day, inventory, maxCapacity,
                           customersServed, gameState>>

buyUpgrade(type, cost, nextItem) ==
  /\ variant \in FullStores
  /\ IF money < cost
       THEN UNCHANGED vars
       ELSE /\ money' = money - cost
            /\ IF type = "animal"
                 THEN /\ unlockedAnimals' = Append(unlockedAnimals, nextItem)
                      /\ UNCHANGED unlockedCrops
                 ELSE /\ unlockedCrops' = Append(unlockedCrops, nextItem)
                      /\ UNCHANGED unlockedAnimals
            /\ UNCHANGED <<variant, day, inventory, maxCapacity,
                           customersServed, gameState>>

\* mutation of nextDay: the next day starts at once (PLAYING for START)
nextDay_toPlaying ==
  /\ variant \in FullStores
  /\ day' = day + 1
  /\ gameState' = "PLAYING"
  /\ UNCHANGED <<variant, money, inventory, maxCapacity, customersServed,
                 unlockedAnimals, unlockedCrops>>

\* mutation of nextDay: the bag is emptied overnight
nextDay_clearBag ==
  /\ variant \in FullStores
  /\ day' = day + 1
  /\ gameState' = "START"
  /\ inventory' = <<>>
  /\ UNCHANGED <<variant, money, maxCapacity, customersServed,
                 unlockedAnimals, unlockedCrops>>

\* mutation of nextDay: the night passes only when the shop is open
nextDay_fromShop ==
  /\ variant \in FullStores
  /\ gameState = "SHOP"
  /\ day' = day + 1
  /\ gameState' = "START"
  /\ UNCHANGED <<variant, money, inventory, maxCapacity, customersServed,
                 unlockedAnimals, unlockedCrops>>

nextDay ==
  /\ variant \in FullStores
  /\ day' = day + 1
  /\ gameState' = "START"
  /\ UNCHANGED <<variant, money, inventory, maxCapacity, customersServed,
                 unlockedAnimals, unlockedCrops>>

\* the bounds of the store's exploration: a call is left out once it would
\* take money, customersServed, the unlock lists or day past its bound
withinBounds ==
  /\ money' <= MaxMoney
  /\ day' <= MaxDay
  /\ variant \in FullStores =>
       /\ customersServed' <= MaxServed
       /\ Len(unlockedAnimals') + Len(unlockedCrops') <= MaxUnlocked

Next ==
  \/ startDay /\ UNCHANGED appvars
  \/ startDay_main_1 /\ UNCHANGED appvars
  \/ \E item \in Items : addItem(item) /\ UNCHANGED appvars
  \/ \E item \in Items : addItem_main_1(item) /\ UNCHANGED appvars
  \/ \E item \in Items : serve(item) /\ withinBounds /\ UNCHANGED appvars
  \/ \E item \in Items : serve_App_2(item) /\ withinBounds /\ UNCHANGED appvars
  \/ \E item \in Items : serve_main_1(item) /\ withinBounds /\ UNCHANGED appvars
  \/ \E type \in Kinds, cost \in Costs, nextItem \in NextItems :
       buyUpgrade(type, cost, nextItem) /\ withinBounds /\ UNCHANGED appvars
  \/ nextDay /\ withinBounds /\ UNCHANGED appvars

Spec == Init /\ [][Next]_allvars

(* ------------------------ addItem and serve alone --------------------- *)
\* items handed to addItem and serve: a key of every reward table, a key of
\* the two tables of App.jsx only, and a key of the second table of App.jsx only
Produce == {"egg", "sheep_milk", "cabbage"}
\* the balances and the served counts the calls start from
StartMoney == {0, 50}
StartServed == {0, 9}

\* a state of a store with customersServed that has an empty bag and has spent
\* on tomato seeds: during the first day, or on the START screen of the second
InitServe ==
  /\ variant \in FullStores
  /\ money \in StartMoney
  /\ customersServed \in StartServed
  /\ inventory = <<>>
  /\ \/ gameState = "PLAYING" /\ day = 1
     \/ gameState = "START" /\ day = 2
  /\ maxCapacity = 3
  /\ unlockedAnimals = <<"chicken">>
  /\ unlockedCrops = <<"carrot", "tomato">>
  /\ InitApp

NextServe ==
  \/ \E item \in Produce : addItem(item) /\ UNCHANGED appvars
  \/ \E item \in Produce : serve(item) /\ withinBounds /\ UNCHANGED appvars
  \/ \E item \in Produce :
       serve_App_2(item) /\ withinBounds /\ UNCHANGED appvars

SpecServe == InitServe /\ [][NextServe]_allvars

(* ------------------------------ the games ----------------------------- *)
(* The component that renders each store: part_000's App, the two Apps of  *)
(* App.jsx and the two Games of main.jsx.  One action per event handler;   *)
(* a handler is taken only while its element is rendered and can be        *)
(* clicked.                                                                *)

\* the games with a carrot patch kept in the component's stages / growth
PatchGames == {"part_000", "App_1", "main_2"}

\* growth gained in one frame (delta * 20, delta * 25): the code compares
\* growth with 100 only, so it is counted in halves of 100
FrameGrowth == 50

\* the 3D scene receives clicks: part_000 and both Games cover it with a
\* full-screen overlay (inset: 0) outside PLAYING; the overlays of App.jsx are
\* a centred box on a layer with pointer-events: none
CanvasOpen == variant \in {"App_1", "App_2"} \/ gameState = "PLAYING"

\* part_000's currentOrder and the order of main.jsx's second Game
currentOrder ==
  IF customersServed % 2 = 0
    THEN (IF includes(unlockedAnimals, "duck") THEN "duck_egg" ELSE "egg")
    ELSE (IF includes(unlockedCrops, "tomato") THEN "tomato" ELSE "carrot")

\* getOrder of the first App of App.jsx
getOrder ==
  LET pool == [k \in 1..Len(unlockedAnimals) |->
                 IF unlockedAnimals[k] = "chicken" THEN "egg" ELSE "duck_egg"]
              \o unlockedCrops
  IN  pool[(customersServed % Len(pool)) + 1]

\* getOrder of the second App of App.jsx
getOrder_App_2 ==
  LET pool == [k \in 1..Len(unlockedAnimals) |->
                 IF unlockedAnimals[k] = "chicken" THEN "egg"
                 ELSE IF unlockedAnimals[k] = "duck" THEN "duck_egg"
                 ELSE "sheep_milk"]
              \o unlockedCrops
  IN  pool[(customersServed % Len(pool)) + 1]

\* what the animal coop of the second App of App.jsx hands out
coopProduce ==
  IF includes(unlockedAnimals, "sheep") THEN "sheep_milk"
  ELSE IF includes(unlockedAnimals, "duck") THEN "duck_egg"
  ELSE "egg"

\* currentCrop of VegetablePatch: the last unlocked crop
currentCrop == unlockedCrops[Len(unlockedCrops)]

\* the item the customer at the counter asks for (main.jsx's first Game
\* always wants an egg)
orderNow ==
  CASE variant \in {"part_000", "main_2"} -> currentOrder
    [] variant = "App_1"                  -> getOrder
    [] variant = "App_2"                  -> getOrder_App_2
    [] variant = "main_1"                 -> "egg"

\* the items the stations rendered in this state hand to addItem
stationProduce ==
  CASE variant \in {"part_000", "App_1"} ->
         {"egg", "carrot"}
           \cup (IF includes(unlockedAnimals, "duck") THEN {"duck_egg"} ELSE {})
           \cup (IF includes(unlockedCrops, "tomato") THEN {"tomato"} ELSE {})
    [] variant = "main_2" -> {"egg", "carrot"}
    [] variant = "App_2"  -> {coopProduce, currentCrop}
    [] variant = "main_1" -> {"egg"}

keepCrops == UNCHANGED <<stages, growth>>

keepHistory == UNCHANGED <<daysStarted, startedSince, servedSince, spent>>

\* the history after a click on the customer: a serve that was counted is one
\* more serve since day last changed
countServe ==
  /\ servedSince' = IF customersServed' # customersServed /\ servedSince < 10
                      THEN servedSince + 1
                      ELSE servedSince
  /\ UNCHANGED <<daysStarted, startedSince, spent>>

\* chicken station
clickChicken ==
  /\ variant \in PatchGames
  /\ CanvasOpen
  /\ addItem("egg")
  /\ keepCrops
  /\ keepHistory

\* coop of main.jsx's first Game
clickChicken_main_1 ==
  /\ variant = "main_1"
  /\ CanvasOpen
  /\ addItem_main_1("egg")
  /\ keepCrops
  /\ keepHistory

\* duck station, rendered once 'duck' is unlocked
clickDuck ==
  /\ variant \in {"part_000", "App_1"}
  /\ CanvasOpen
  /\ includes(unlockedAnimals, "duck")
  /\ addItem("duck_egg")
  /\ keepCrops
  /\ keepHistory

\* animal coop of the second App of App.jsx
clickCoop ==
  /\ variant = "App_2"
  /\ CanvasOpen
  /\ addItem(coopProduce)
  /\ keepCrops
  /\ keepHistory

\* carrot patch and, once 'tomato' is unlocked, tomato patch (main.jsx's second
\* Game has no tomato patch)
clickPatch(crop) ==
  /\ variant \in PatchGames
  /\ CanvasOpen
  /\ crop = "tomato" =>
       (variant # "main_2" /\ includes(unlockedCrops, "tomato"))
  /\ IF stages[crop] = "EMPTY"
       THEN /\ stages' = [stages EXCEPT ![crop] = "GROWING"]
            /\ UNCHANGED <<vars, growth>>
       ELSE IF stages[crop] = "READY"
              THEN /\ addItem(crop)
                   /\ stages' = [stages EXCEPT ![crop] = "EMPTY"]
                   /\ growth' = [growth EXCEPT ![crop] = 0]
              ELSE UNCHANGED <<vars, stages, growth>>
  /\ keepHistory

\* VegetablePatch of the second App of App.jsx
clickVegetablePatch ==
  /\ variant = "App_2"
  /\ CanvasOpen
  /\ IF stages.patch = "EMPTY"
       THEN /\ stages' = [stages EXCEPT !.patch = "WATERED"]
            /\ UNCHANGED <<vars, growth>>
       ELSE IF stages.patch = "READY"
              THEN /\ addItem(currentCrop)
                   /\ stages' = [stages EXCEPT !.patch = "EMPTY"]
                   /\ growth' = [growth EXCEPT !.patch = 0]
              ELSE UNCHANGED <<vars, stages, growth>>
  /\ keepHistory

\* the customer at the counter
clickCustomer ==
  /\ CanvasOpen
  /\ \/ variant \in SpliceStores /\ serve(orderNow)
     \/ variant = "App_2" /\ serve_App_2(orderNow)
     \/ variant = "main_1" /\ serve_main_1(orderNow)
  /\ keepCrops
  /\ countServe

\* the button of the START overlay
clickStart ==
  /\ gameState = "START"
  /\ startDay \/ startDay_main_1
  /\ daysStarted' = daysStarted + 1
  /\ startedSince' = TRUE
  /\ UNCHANGED <<servedSince, spent>>
  /\ keepCrops

\* mutation of clickBuy: the sheep is offered before the duck is unlocked
clickBuy_sheepFirst(item) ==
  /\ variant \in FullStores
  /\ gameState = "SHOP"
  /\ \/ /\ item = "duck"
        /\ ~ includes(unlockedAnimals, "duck")
        /\ buyUpgrade("animal", 200, "duck")
     \/ /\ item = "sheep"
        /\ variant = "App_2"
        /\ ~ includes(unlockedAnimals, "sheep")
        /\ buyUpgrade("animal", 500, "sheep")
     \/ /\ item = "tomato"
        /\ ~ includes(unlockedCrops, "tomato")
        /\ buyUpgrade("crop", 150, "tomato")
  /\ keepCrops
  /\ spent' = spent + (money - money')
  /\ UNCHANGED <<daysStarted, startedSince, servedSince>>

\* mutation of clickBuy: every button is rendered whatever is unlocked
clickBuy_always(item) ==
  /\ variant \in FullStores
  /\ gameState = "SHOP"
  /\ \/ /\ item = "duck"
        /\ buyUpgrade("animal", 200, "duck")
     \/ /\ item = "sheep"
        /\ variant = "App_2"
        /\ buyUpgrade("animal", 500, "sheep")
     \/ /\ item = "tomato"
        /\ buyUpgrade("crop", 150, "tomato")
  /\ keepCrops
  /\ spent' = spent + (money - money')
  /\ UNCHANGED <<daysStarted, startedSince, servedSince>>

\* the upgrade buttons of the SHOP overlay; each is rendered until its item
\* is unlocked, the sheep (second App of App.jsx) once the duck is
clickBuy(item) ==
  /\ variant \in FullStores
  /\ gameState = "SHOP"
  /\ \/ /\ item = "duck"
        /\ ~ includes(unlockedAnimals, "duck")
        /\ buyUpgrade("animal", 200, "duck")
     \/ /\ item = "sheep"
        /\ variant = "App_2"
        /\ ~ includes(unlockedAnimals, "sheep")
        /\ includes(unlockedAnimals, "duck")
        /\ buyUpgrade("animal", 500, "sheep")
     \/ /\ item = "tomato"
        /\ ~ includes(unlockedCrops, "tomato")
        /\ buyUpgrade("crop", 150, "tomato")
  /\ keepCrops
  /\ spent' = spent + (money - money')
  /\ UNCHANGED <<daysStarted, startedSince, servedSince>>

\* the Sleep / Next Day button of the SHOP overlay
clickSleep ==
  /\ variant \in FullStores
  /\ gameState = "SHOP"
  /\ nextDay
  /\ startedSince' = FALSE
  /\ servedSince' = 0
  /\ UNCHANGED <<daysStarted, spent>>
  /\ keepCrops

\* one crop in one frame: a growing crop gains FrameGrowth until it has 100,
\* then it is READY
frameStage(watered, stage, g) ==
  IF stage = watered /\ g < 100 THEN stage
  ELSE IF g >= 100 THEN "READY" ELSE stage

frameGrowth(watered, stage, g) ==
  IF stage = watered /\ g < 100 THEN g + FrameGrowth ELSE g

\* useFrame of App / Game: both crops
useFrame ==
  /\ variant \in PatchGames
  /\ stages' =
       [carrot |-> frameStage("GROWING", stages.carrot, growth.carrot),
        tomato |-> frameStage("GROWING", stages.tomato, growth.tomato)]
  /\ growth' =
       [carrot |-> frameGrowth("GROWING", stages.carrot, growth.carrot),
        tomato |-> frameGrowth("GROWING", stages.tomato, growth.tomato)]
  /\ UNCHANGED vars
  /\ keepHistory

\* useFrame of VegetablePatch
useFrame_VegetablePatch ==
  /\ variant = "App_2"
  /\ stages' = [patch |-> frameStage("WATERED", stages.patch, growth.patch)]
  /\ growth' = [patch |-> frameGrowth("WATERED", stages.patch, growth.patch)]
  /\ UNCHANGED vars
  /\ keepHistory

\* the bounds of a session: it ends with the shop of day MaxDay, the customer
\* is no longer clicked at MaxServed and, in the game without a served
\* counter, at MaxMoney
withinGame ==
  /\ day' <= MaxDay
  /\ variant \in FullStores => customersServed' <= MaxServed
  /\ variant = "main_1" => money' <= MaxMoney

NextGame ==
  \/ clickChicken
  \/ clickChicken_main_1
  \/ clickDuck
  \/ clickCoop
  \/ \E crop \in {"carrot", "tomato"} : clickPatch(crop)
  \/ clickVegetablePatch
  \/ clickCustomer /\ withinGame
  \/ clickStart
  \/ \E item \in {"duck", "sheep", "tomato"} : clickBuy(item)
  \/ clickSleep /\ withinGame
  \/ useFrame
  \/ useFrame_VegetablePatch

SpecGame == Init /\ [][NextGame]_allvars

(* ------------------------------ the shops ----------------------------- *)
\* The games that have a shop, from the first time it opens.
\* customers served when the shop of day 1 is entered: ten, and in the second
\* App of App.jsx, whose customer can still be clicked beside the shop
\* overlay, thirty
shopServed(v) == IF v = "App_2" THEN 30 ELSE 10

\* the balance by then: the first balance and the rewards of the orders,
\* which alternate between an egg and a carrot
shopMoney(v) ==
  money0(v) + (shopServed(v) \div 2) * (rewards(v)["egg"] + rewards(v)["carrot"])

\* day 1 was started, the orders were served as they came and nothing is
\* left in the bag or on the patch
InitShop ==
  /\ variant \in FullStores
  /\ money = shopMoney(variant)
  /\ day = 1
  /\ inventory = <<>>
  /\ gameState = "SHOP"
  /\ maxCapacity = 3
  /\ customersServed = shopServed(variant)
  /\ unlockedAnimals = <<"chicken">>
  /\ unlockedCrops = <<"carrot">>
  /\ stages = IF variant = "App_2"
                THEN [patch |-> "EMPTY"]
                ELSE [carrot |-> "EMPTY", tomato |-> "EMPTY"]
  /\ growth = IF variant = "App_2"
                THEN [patch |-> 0]
                ELSE [carrot |-> 0, tomato |-> 0]
  /\ daysStarted = 1
  /\ startedSince = TRUE
  /\ servedSince = 10
  /\ spent = 0

NextShop ==
  \/ clickChicken
  \/ clickDuck
  \/ clickCoop
  \/ \E crop \in {"carrot", "tomato"} : clickPatch(crop)
  \/ clickVegetablePatch
  \/ clickCustomer /\ withinGame
  \/ clickStart
  \/ \E item \in {"duck", "sheep", "tomato"} : clickBuy(item)
  \/ clickSleep /\ withinGame
  \/ useFrame
  \/ useFrame_VegetablePatch

SpecShop == InitShop /\ [][NextShop]_allvars

(* ====================================================================== *)
(* Properties of the store                                                *)
(* ====================================================================== *)
\* number of occurrences of x in arr
Count(arr, x) == Cardinality({k \in 1..Len(arr) : arr[k] = x})

\* the bag size: the maxCapacity field, or the literal 3 of main_1's addItem
Capacity == IF variant \in FullStores THEN maxCapacity ELSE 3

\* a call of serve(i) of a copy that has customersServed
serveCounted(i) == serve(i) \/ serve_App_2(i)

\* a call of serve(i) of any copy
serveAny(i) == serve(i) \/ serve_App_2(i) \/ serve_main_1(i)

\* a call of addItem(i) of any copy
addItemAny(i) == addItem(i) \/ addItem_main_1(i)

(* ------------------------------- C1 ----------------------------------- *)
\* C1: in every store variant, after any sequence of calls, the length of
\* inventory is at most maxCapacity, which is 3.
C1_InventoryBounded == Len(inventory) <= Capacity /\ Capacity = 3

\* a full bag, filled while the shop is open in the copy whose serve empties it
C1_Witness == variant = "App_2" /\ gameState = "SHOP" /\ Len(inventory) = 3

(* ------------------------------- C2 ----------------------------------- *)
\* C2: in every store variant that has customersServed, serve(i) with i held
\* removes exactly one occurrence of i (every other held item, other copies of
\* i included, stays), adds the reward for i to money and increments
\* customersServed by exactly 1.
C2_ServeRemovesOne ==
  [][\A i \in Items :
       (serveCounted(i) /\ includes(inventory, i)) =>
         /\ Len(inventory') = Len(inventory) - 1
         /\ \A x \in Items :
              Count(inventory', x) = Count(inventory, x) - (IF x = i THEN 1 ELSE 0)
         /\ money' = money + rewardOr20(variant, i)
         /\ customersServed' = customersServed + 1]_vars

(* ------------------------------- C3 ----------------------------------- *)
\* C3: serve(i) with i not in the inventory is a silent no-op in every phase:
\* money, customersServed, inventory, gameState, day and both unlock sets
\* are unchanged.
C3_ServeMissNoOp ==
  [][\A i \in Items :
       (serveAny(i) /\ Count(inventory, i) = 0) => UNCHANGED vars]_vars

\* the shop is open, an egg is held and a duck egg is not
C3_Witness ==
  /\ gameState = "SHOP"
  /\ inventory = <<"egg">>
  /\ Count(inventory, "duck_egg") = 0

(* ------------------------------- C4 ----------------------------------- *)
\* C4: after a successful serve gameState is SHOP when the new customersServed
\* has reached 10 and PLAYING when it is lower; the serve that brings the count
\* from 9 to 10 is the step that moves the phase from PLAYING to SHOP.
C4_PhaseAfterServe ==
  [][\A i \in Items :
       (serveCounted(i) /\ Count(inventory, i) > 0) =>
         /\ customersServed' >= 10 => gameState' = "SHOP"
         /\ customersServed' < 10 => gameState' = "PLAYING"
         /\ (gameState = "PLAYING" /\ customersServed = 9) =>
              (customersServed' = 10 /\ gameState' = "SHOP")
         /\ (gameState = "PLAYING" /\ gameState' = "SHOP") =>
              (customersServed = 9 /\ customersServed' = 10)]_vars

\* the tenth customer of the first day has just been served
C4_Witness ==
  /\ variant \in FullStores
  /\ gameState = "SHOP"
  /\ customersServed = 10
  /\ day = 1

(* ------------------------------- C5 ----------------------------------- *)
\* C5: addItem(i) on a full inventory (length equal to maxCapacity) leaves the
\* inventory and every other field unchanged.
C5_AddItemFullNoOp ==
  [][\A i \in Items :
       (addItemAny(i) /\ Len(inventory) = Capacity) => UNCHANGED vars]_vars

\* a full bag during play
C5_Witness == gameState = "PLAYING" /\ Len(inventory) = Capacity

(* ------------------------------- C6 ----------------------------------- *)
\* C6: addItem(i) on an inventory with room yields the inventory with i
\* appended as the last element and changes nothing else, in any phase.
C6_AddItemAppends ==
  [][\A i \in Items :
       (addItemAny(i) /\ Len(inventory) < Capacity) =>
         /\ inventory' = inventory \o <<i>>
         /\ UNCHANGED <<variant, money, day, maxCapacity, customersServed,
                        gameState, unlockedAnimals, unlockedCrops>>]_vars

\* two different items added in order before the first day was started
C6_Witness ==
  /\ gameState = "START"
  /\ day = 1
  /\ inventory = <<"duck_egg", "egg">>

(* ------------------------------- C7 ----------------------------------- *)
\* C7: buyUpgrade(kind, cost, next) with money < cost leaves money, both
\* unlock sets and every other field unchanged.
C7_BuyRejected ==
  [][\A k \in Kinds, c \in Costs, n \in NextItems :
       (buyUpgrade(k, c, n) /\ money < c) => UNCHANGED vars]_vars

\* the shop is open and the cheapest upgrade is out of reach
C7_Witness ==
  /\ variant \in FullStores
  /\ gameState = "SHOP"
  /\ money > 0
  /\ money < 150

(* ------------------------------- C8 ----------------------------------- *)
\* C8: buyUpgrade(kind, cost, next) with money >= cost decreases money by
\* exactly cost and appends next once to unlockedAnimals when kind is 'animal'
\* and to unlockedCrops for any other kind, leaving everything else unchanged;
\* money = cost succeeds and leaves 0.
C8_BuyAccepted ==
  [][\A k \in Kinds, c \in Costs, n \in NextItems :
       (buyUpgrade(k, c, n) /\ money >= c) =>
         /\ money' = money - c
         /\ k = "animal" =>
              /\ unlockedAnimals' = unlockedAnimals \o <<n>>
              /\ unlockedCrops' = unlockedCrops
         /\ k # "animal" =>
              /\ unlockedCrops' = unlockedCrops \o <<n>>
              /\ unlockedAnimals' = unlockedAnimals
         /\ money = c => money' = 0
         /\ UNCHANGED <<variant, day, inventory, maxCapacity, customersServed,
                        gameState>>]_vars

\* the whole balance was spent on an upgrade that went to the crops
C8_Witness ==
  /\ variant \in FullStores
  /\ money = 0
  /\ unlockedCrops = <<"carrot", "duck">>

(* ------------------------------- C9 ----------------------------------- *)
\* C9: money is non-negative in every reachable state, whatever serve and
\* buyUpgrade calls (costs 150, 200, 500) were made.
C9_MoneyNonNegative == money >= 0

\* an upgrade was bought and less than the cheapest price is left
C9_Witness ==
  /\ variant \in FullStores
  /\ Len(unlockedAnimals) = 2
  /\ money < 150

(* ------------------------------- C10 ---------------------------------- *)
\* C10 as stated: every change of gameState is START->PLAYING, PLAYING->SHOP
\* or SHOP->START, and SHOP is entered only by the serve that brings
\* customersServed to 10.
C10_OnlyCycle ==
  [][gameState' # gameState =>
       /\ \/ (gameState = "START" /\ gameState' = "PLAYING")
          \/ (gameState = "PLAYING" /\ gameState' = "SHOP")
          \/ (gameState = "SHOP" /\ gameState' = "START")
       /\ gameState' = "SHOP" =>
            (customersServed = 9 /\ customersServed' = 10)]_vars

\* the step is what startDay does
C10_byStartDay ==
  /\ gameState' = "PLAYING"
  /\ inventory' = <<>>
  /\ variant \in FullStores => customersServed' = 0
  /\ UNCHANGED <<money, day>>

\* the step is what nextDay does
C10_byNextDay ==
  /\ gameState' = "START"
  /\ day' = day + 1
  /\ UNCHANGED <<money, inventory, customersServed>>

\* the step is what a successful serve does
C10_byServe ==
  /\ variant \in FullStores
  /\ customersServed' = customersServed + 1
  /\ money' > money
  /\ Len(inventory') < Len(inventory)
  /\ gameState' = IF customersServed' >= 10 THEN "SHOP" ELSE "PLAYING"
  /\ UNCHANGED day

\* C10 amended: gameState changes only to PLAYING by startDay, to START by
\* nextDay, or by a successful serve, to SHOP when the new customersServed is
\* 10 or more and to PLAYING otherwise; so SHOP is entered only by a successful
\* serve, and from PLAYING only by the serve that brings the count from 9 to 10.
C10_PhaseChanges ==
  [][gameState' # gameState =>
       /\ C10_byStartDay \/ C10_byNextDay \/ C10_byServe
       /\ gameState' = "SHOP" => (C10_byServe /\ customersServed' >= 10)
       /\ (gameState = "PLAYING" /\ gameState' = "SHOP") =>
            (customersServed = 9 /\ customersServed' = 10)]_vars

\* nextDay was called during play: day 2 waits to be started with the served
\* count of an unfinished day
C10_Witness ==
  /\ variant \in FullStores
  /\ gameState = "START"
  /\ day = 2
  /\ customersServed \in 1..9
(* ------------------------------- C11 ---------------------------------- *)
\* a call of startDay of any copy
startDayAny == startDay \/ startDay_main_1

\* C11: startDay has no precondition: in any state and any phase it can be
\* called, and every call yields gameState = PLAYING, customersServed = 0
\* (in the copies that have the counter) and an empty inventory.
C11_StartDayAlways ==
  /\ ENABLED startDayAny
  /\ ~ ENABLED (startDayAny /\ ~ (/\ gameState' = "PLAYING"
                                  /\ inventory' = <<>>
                                  /\ variant \in FullStores =>
                                       customersServed' = 0))

\* on the first day customers were paid for and the count is 0 again: startDay
\* was called after a serve, which had left the phase PLAYING or SHOP
C11_Witness ==
  /\ variant \in FullStores
  /\ day = 1
  /\ money > money0(variant)
  /\ gameState = "PLAYING"
  /\ customersServed = 0
  /\ inventory = <<>>

(* ------------------------------- C12 ---------------------------------- *)
\* C12: nextDay can be called in any phase (START, PLAYING or SHOP), and every
\* call increments day by exactly 1 and sets gameState to START.
C12_NextDayAlways ==
  variant \in FullStores =>
    /\ gameState \in {"START", "PLAYING", "SHOP"}
    /\ ENABLED nextDay
    /\ ~ ENABLED (nextDay /\ ~ (day' = day + 1 /\ gameState' = "START"))

\* day 2 was reached without a customer served: nextDay was called in START,
\* or in PLAYING straight after startDay
C12_Witness ==
  /\ variant \in FullStores
  /\ gameState = "START"
  /\ day = 2
  /\ money = money0(variant)
  /\ customersServed = 0

(* ------------------------------- C13 ---------------------------------- *)
\* every member of both unlock lists is kept by the step
C13_membersKept ==
  variant \in FullStores =>
    /\ \A k \in 1..Len(unlockedAnimals) :
         includes(unlockedAnimals', unlockedAnimals[k])
    /\ \A k \in 1..Len(unlockedCrops) :
         includes(unlockedCrops', unlockedCrops[k])

\* the first animal and the first crop are unlocked
C13_firstUnlocked ==
  variant \in FullStores =>
    /\ includes(unlockedAnimals, "chicken")
    /\ includes(unlockedCrops, "carrot")

\* C13: unlock sets only grow: in every step each member of unlockedAnimals
\* and of unlockedCrops before the step is still a member after it, and
\* 'chicken' and 'carrot' are unlocked in every reachable state.
C13_UnlocksOnlyGrow == [] C13_firstUnlocked /\ [][C13_membersKept]_vars

\* an animal was bought and the first one is still there
C13_Witness ==
  /\ variant \in FullStores
  /\ Len(unlockedAnimals) = 2
  /\ unlockedAnimals[1] = "chicken"
  /\ unlockedAnimals[2] = "duck"

(* ------------------------------- C14 ---------------------------------- *)
\* a step of the first App of App.jsx that increments day comes after a
\* startDay and 10 successful serves since the previous increment
C14_roundCompleted ==
  (variant = "App_1" /\ day' # day) => (startedSince /\ servedSince >= 10)

\* no more days were ended than were started
C14_daysWereStarted == variant = "App_1" => day - 1 <= daysStarted

\* C14: with the operations invoked only as the first App of App.jsx enables
\* them, every increment of day is preceded by a startDay and 10 successful
\* serves since the previous increment, so that day - 1 never exceeds the
\* number of started days.
C14_DayPerRound == [] C14_daysWereStarted /\ [][C14_roundCompleted]_allvars

(* ------------------------------- C15 ---------------------------------- *)
\* C15: once customersServed has reached 10 no further serve is counted until
\* the next startDay: customersServed is at most 10 in every reachable state
\* of the store.
C15_ServedAtMostTen == variant \in FullStores => customersServed <= 10

(* ------------------------------- C16 ---------------------------------- *)
\* the store variants whose reward for 'egg' is 25
EggAt25 == {v \in FullStores : rewards(v)["egg"] = 25}

C16_before == money = 50 /\ inventory = <<>> /\ customersServed = 9

C16_between == money = 50 /\ inventory = <<"egg">> /\ customersServed = 9

C16_after ==
  /\ money = 75
  /\ inventory = <<>>
  /\ customersServed = 10
  /\ gameState = "SHOP"

\* C16: in the store variants whose reward for 'egg' is 25, from a state with
\* money 50, empty inventory and customersServed 9, addItem('egg') and then
\* serve('egg') yields money 75, empty inventory, customersServed 10 and
\* gameState SHOP.
C16_EggExample ==
  variant \in EggAt25 =>
    /\ C16_before =>
         /\ ENABLED addItem("egg")
         /\ ~ ENABLED (addItem("egg") /\ ~ C16_between')
    /\ C16_between =>
         /\ ENABLED serveCounted("egg")
         /\ ~ ENABLED (serveCounted("egg") /\ ~ C16_after')

\* the state the example ends in
C16_Witness == variant \in EggAt25 /\ day = 1 /\ C16_after

(* ------------------------------- C17 ---------------------------------- *)
\* C17: the money added by a successful serve(i) is the reward-table value of
\* i when i is a key of the table and exactly 20 when i is held but not a key
\* (sheep_milk or cabbage in part_000's store); no successful serve adds 0 or
\* a negative amount.
C17_RewardPaid ==
  \A i \in Produce :
    includes(inventory, i) =>
      /\ ENABLED serveCounted(i)
      /\ ~ ENABLED (serveCounted(i) /\
                    ~ (/\ i \in DOMAIN rewards(variant) =>
                            money' - money = rewards(variant)[i]
                       /\ i \notin DOMAIN rewards(variant) =>
                            money' - money = 20
                       /\ money' - money > 0))

\* part_000's first customer of the day was served something its table does
\* not price
C17_Witness ==
  /\ variant = "part_000"
  /\ gameState = "PLAYING"
  /\ customersServed = 1
  /\ money = 20

(* ------------------------------- C18 ---------------------------------- *)

\* C18: in every reachable state of the store the phase and the served counter
\* agree: gameState = SHOP implies customersServed >= 10, and
\* gameState = PLAYING implies customersServed < 10.
C18_PhaseAgreesWithCount ==
  variant \in FullStores =>
    /\ gameState = "SHOP" => customersServed >= 10
    /\ gameState = "PLAYING" => customersServed < 10

\* a customer was served while the shop was open, and the shop stayed open
C18_Witness ==
  /\ variant \in FullStores
  /\ gameState = "SHOP"
  /\ customersServed = 11

(* ------------------------------- C19 ---------------------------------- *)
\* C19: in part_000's App a started day never gets stuck: in every reachable
\* state with gameState = PLAYING the inventory has room for another item or
\* contains the customer's current order.
C19_NeverStuck ==
  (variant = "part_000" /\ gameState = "PLAYING") =>
    \/ Len(inventory) < maxCapacity
    \/ includes(inventory, currentOrder)

(* ------------------------------- C20 ---------------------------------- *)
\* C20: in every reachable state of each game the item the customer currently
\* orders is one that a station available in that state can add to the
\* inventory.
C20_OrderObtainable == orderNow \in stationProduce

(* ------------------------------- C21 ---------------------------------- *)
\* a call of serve(i) of a copy that splices the item out
serveSplice(i) == serve(i) \/ serve_main_1(i)

\* arr without its element at position k (1-based), the others in order
without(arr, k) == SubSeq(arr, 1, k - 1) \o SubSeq(arr, k + 1, Len(arr))

\* inv is arr without the first occurrence of i
C21_firstRemoved(arr, i, inv) ==
  \E k \in 1..Len(arr) :
    /\ arr[k] = i
    /\ \A j \in 1..(k - 1) : arr[j] # i
    /\ inv = without(arr, k)

C22_startDayFrame ==
  /\ ENABLED startDayAny
  /\ ~ ENABLED (startDayAny /\
                ~ UNCHANGED <<money, day, maxCapacity, unlockedAnimals,
                              unlockedCrops>>)

\* what nextDay leaves as it is
C22_nextDayKeeps ==
  UNCHANGED <<money, inventory, customersServed, maxCapacity, unlockedAnimals,
              unlockedCrops>>

C23_buysAnimal == NextShop /\ unlockedAnimals' # unlockedAnimals

\* C23: in the second App of App.jsx, with buyUpgrade invoked only through
\* the shop buttons, 'sheep' in unlockedAnimals implies 'duck' in
\* unlockedAnimals, unlocked before it, and an animal is bought only while
\* gameState = SHOP.
C23_DuckBeforeSheep ==
  variant = "App_2" =>
    /\ includes(unlockedAnimals, "sheep") =>
         /\ includes(unlockedAnimals, "duck")
         /\ indexOf(unlockedAnimals, "duck") < indexOf(unlockedAnimals, "sheep")
    /\ gameState # "SHOP" => ~ ENABLED C23_buysAnimal
    /\ (gameState = "SHOP" /\ money >= 200 /\ Len(unlockedAnimals) = 1) =>
         ENABLED C23_buysAnimal

\* the duck and then the sheep were bought
C23_Witness ==
  /\ variant = "App_2"
  /\ unlockedAnimals = <<"chicken", "duck", "sheep">>

(* ------------------------------- C24 ---------------------------------- *)
\* no item appears twice in arr
noDuplicates(arr) ==
  \A j, k \in 1..Len(arr) : j # k => arr[j] # arr[k]

\* the sum of the prices the shop of the game lists: duck 200 and tomato 150,
\* and sheep 500 in the second App of App.jsx
listedPrices == IF variant = "App_2" THEN 200 + 500 + 150 ELSE 200 + 150

\* C24: with buyUpgrade invoked only through the shop buttons, no item ever
\* appears twice in unlockedAnimals or unlockedCrops, and the money spent on
\* upgrades over a whole game is at most the sum of the listed prices (350 in
\* part_000).
C24_EachUpgradeOnce ==
  variant \in FullStores =>
    /\ noDuplicates(unlockedAnimals)
    /\ noDuplicates(unlockedCrops)
    /\ spent <= listedPrices
    /\ variant = "part_000" => spent <= 350

\* part_000's shop is sold out
C24_Witness ==
  /\ variant = "part_000"
  /\ unlockedAnimals = <<"chicken", "duck">>
  /\ unlockedCrops = <<"carrot", "tomato">>
  /\ spent = 350

====
